---- MODULE Spec2Model ----
(***************************************************************************)
(* The avalanche proof conflict pool (src/src/avalanche/proofpool.cpp).   *)
(*                                                                         *)
(* The pool is a multi-index container of entries (utxoIndex, proof): one *)
(* entry per stake of each held proof, indexed by the staked outpoint     *)
(* (unique) and by the proof id (non unique).  Every public operation of  *)
(* ProofPool is one action; the operations run under the caller's lock,   *)
(* so an action is a whole call.                                           *)
(*                                                                         *)
(* The slot allocator of the peer manager (src/src/avalanche/             *)
(* peermanager.h) follows it: the slots of the peers on the line           *)
(* [0, slotCount), the weighted selection of a peer and the search of a    *)
(* slot.  The header holds the state and the Slot predicates; the bodies   *)
(* of the operations are those the specification of the allocator gives.  *)
(***************************************************************************)
EXTENDS Integers, Sequences, FiniteSets

\* Bound of the model: the outpoints that proofs stake.
NumOutpoints == 3

\* Bounds of the allocator: the peers added, the score of a peer, and the
\* slots the vector holds before a compaction has to make room.
MaxPeers == 2
MaxScore == 2
MaxSlots == 3

\* NO_PEER = ~size_t(0): all bits set, which read as a signed value is -1.
\* No index of a vector equals it.
NO_PEER == -1

\* AddProofStatus (the enumeration of proofpool.h).
REJECTED == 0
SUCCEED == 1
DUPLICATED == 2

Outpoints == 1..NumOutpoints

\* A proof stakes one or more outpoints.  Proofs reach the pool after
\* Proof::verify, which refuses a proof that stakes an outpoint twice and
\* accepts one order of the stakes only: the stakes of a proof are distinct
\* and ascending.
StakeSeqs ==
    UNION { { s \in [1..n -> Outpoints] :
                \A i, j \in 1..n : i < j => s[i] < s[j] } : n \in 1..NumOutpoints }

\* The proof id is a hash of the proof's content: one id per content.
RECURSIVE ProofIdOf(_)
ProofIdOf(s) ==
    IF s = <<>> THEN 0
    ELSE ProofIdOf(SubSeq(s, 1, Len(s) - 1)) * (NumOutpoints + 1) + s[Len(s)]

Proofs == { [id |-> ProofIdOf(s), stakes |-> s] : s \in StakeSeqs }

\* nullptr, as a ProofRef.
NullProof == [id |-> 0, stakes |-> <<>>]

getId(proof) == proof.id
getStakes(proof) == proof.stakes

\* ProofPoolEntry::getUTXO: the outpoint of the entry's stake.
getUTXO(entry) == getStakes(entry.proof)[entry.utxoIndex]

\* pool: the entries of ProofPool::pool.  aborted: an assert has failed.
\* last: the last call, with its arguments and what it returned.
\* succeeded: the proofs for which addProofIfNoConflict has returned SUCCEED
\* and that no removeProof or rescan has removed since.
VARIABLES pool, last, aborted, succeeded

\* pm: the PeerManager (slots, slotCount, fragmentation, and the slot each
\* peer owns).  scores: the score each peer was last given.  lastPm: the
\* last call of the PeerManager.  search: a run of selectPeerImpl, its
\* arguments and the position of its loop.
VARIABLES pm, scores, lastPm, search

poolVars == <<pool, last, aborted, succeeded>>
peerVars == <<pm, scores, lastPm>>

vars == <<pool, last, aborted, succeeded, pm, scores, lastPm, search>>


(***************************************************************************)
(* The container: boost multi_index over ProofPoolEntry.                   *)
(***************************************************************************)

\* pool.find(outpoint) on the unique by-outpoint index: the entries found
\* (none stands for pool.end()).
find(pl, outpoint) == { e \in pl : getUTXO(e) = outpoint }

\* pool.emplace(i, proof): the by-outpoint index is unique, so the entry is
\* inserted only when no held entry has its outpoint.  p.first is the entry
\* inserted or the one that blocked it, p.second tells which.
emplace(pl, i, proof) ==
    LET entry == [utxoIndex |-> i, proof |-> proof]
        held  == find(pl, getUTXO(entry))
    IN  IF held # {}
        THEN [pool |-> pl, first |-> CHOOSE e \in held : TRUE, second |-> FALSE]
        ELSE [pool |-> pl \cup {entry}, first |-> entry, second |-> TRUE]

\* containsProofId that finds no proof.
containsProofIdNever(pl, proofid) == FALSE

\* pool.get<by_proofid>().find(proofid) != end()
containsProofId(pl, proofid) == \E e \in pl : getId(e.proof) = proofid

(***************************************************************************)
(* ConflictingProofComparator: a strict total order of the proofs, the    *)
(* preferred one first.  The score is the staked amount; outpoint o       *)
(* stakes o coins.  Ties go to the lower proof id.                         *)
(***************************************************************************)
RECURSIVE getScore(_)
getScore(proof) ==
    LET s == getStakes(proof)
    IN  IF s = <<>> THEN 0
        ELSE s[Len(s)]
             + getScore([proof EXCEPT !.stakes = SubSeq(s, 1, Len(s) - 1)])

compare(lhs, rhs) ==
    \/ getScore(lhs) > getScore(rhs)
    \/ getScore(lhs) = getScore(rhs) /\ getId(lhs) < getId(rhs)

\* *conflictingProofs.begin(): ConflictingProofSet is a std::set ordered by
\* the comparator, so its first element is the most preferred one.
begin(conflictingProofs) ==
    CHOOSE p \in conflictingProofs :
        \A q \in conflictingProofs \ {p} : compare(p, q)

(***************************************************************************)
(* ProofPool::addProofIfNoConflict                                         *)
(***************************************************************************)

\* clear that leaves the set as it is.
clearNothing(conflictingProofs) == conflictingProofs

\* conflictingProofs.clear()
clear(conflictingProofs) == {}

\* AttachStakes with an entry attached even when its outpoint is held.
RECURSIVE AttachStakesAlwaysInsert(_, _, _, _)
AttachStakesAlwaysInsert(pl, proof, i, conflictingProofs) ==
    IF i > Len(getStakes(proof))
    THEN [pool |-> pl, conflictingProofs |-> conflictingProofs]
    ELSE LET p == emplace(pl, i, proof)
         IN  AttachStakesAlwaysInsert(
                 pl \cup {[utxoIndex |-> i, proof |-> proof]}, proof, i + 1,
                 IF ~p.second
                 THEN conflictingProofs \cup {p.first.proof}
                 ELSE conflictingProofs)

\* An attach loop that stops at the first stake that collides.
RECURSIVE AttachStakesStopsAtCollision(_, _, _, _)
AttachStakesStopsAtCollision(pl, proof, i, conflictingProofs) ==
    IF i > Len(getStakes(proof))
    THEN [pool |-> pl, conflictingProofs |-> conflictingProofs]
    ELSE LET p == emplace(pl, i, proof)
         IN  IF ~p.second
             THEN [pool |-> p.pool,
                   conflictingProofs |-> conflictingProofs \cup {p.first.proof}]
             ELSE AttachStakesStopsAtCollision(p.pool, proof, i + 1,
                                               conflictingProofs)

\* The loop that attaches the stakes, from stake i on.
RECURSIVE AttachStakes(_, _, _, _)
AttachStakes(pl, proof, i, conflictingProofs) ==
    IF i > Len(getStakes(proof))
    THEN [pool |-> pl, conflictingProofs |-> conflictingProofs]
    ELSE LET p == emplace(pl, i, proof)
         IN  AttachStakes(p.pool, proof, i + 1,
                          IF ~p.second
                          THEN conflictingProofs \cup {p.first.proof}
                          ELSE conflictingProofs)

\* Cleanup that looks every stake up and erases none.
RECURSIVE CleanupErasesNothing(_, _, _)
CleanupErasesNothing(pl, proof, k) ==
    IF k > Len(getStakes(proof))
    THEN [pool |-> pl, asserted |-> TRUE]
    ELSE IF find(pl, getStakes(proof)[k]) = {}
         THEN [pool |-> pl, asserted |-> FALSE]
         ELSE CleanupErasesNothing(pl, proof, k + 1)

\* Cleanup that stops at the first stake an incumbent holds.
RECURSIVE CleanupStopsAtIncumbent(_, _, _)
CleanupStopsAtIncumbent(pl, proof, k) ==
    IF k > Len(getStakes(proof))
    THEN [pool |-> pl, asserted |-> TRUE]
    ELSE LET it == find(pl, getStakes(proof)[k])
         IN  IF it = {}
             THEN [pool |-> pl, asserted |-> FALSE]
             ELSE LET e == CHOOSE e \in it : TRUE
                  IN  IF getId(e.proof) = getId(proof)
                      THEN CleanupStopsAtIncumbent(pl \ {e}, proof, k + 1)
                      ELSE [pool |-> pl, asserted |-> TRUE]

\* The cleanup loop, from stake k on.  asserted is FALSE when
\* assert(it != pool.end()) fails.
RECURSIVE Cleanup(_, _, _)
Cleanup(pl, proof, k) ==
    IF k > Len(getStakes(proof))
    THEN [pool |-> pl, asserted |-> TRUE]
    ELSE LET it == find(pl, getStakes(proof)[k])
         IN  IF it = {}
             THEN [pool |-> pl, asserted |-> FALSE]
             ELSE LET e == CHOOSE e \in it : TRUE
                  IN  Cleanup(IF getId(e.proof) = getId(proof)
                              THEN pl \ {e} ELSE pl,
                              proof, k + 1)

addProofIfNoConflict(pl, proof, conflictingProofsIn) ==
    LET cleared == clear(conflictingProofsIn)
    IN  IF containsProofId(pl, getId(proof))
        THEN [pool |-> pl, status |-> DUPLICATED,
              conflictingProofs |-> cleared, aborted |-> FALSE, removed |-> {}]
        ELSE LET a == AttachStakes(pl, proof, 1, cleared)
             IN  IF Cardinality(a.conflictingProofs) > 0
                 THEN LET c == Cleanup(a.pool, proof, 1)
                      IN  [pool |-> c.pool, status |-> REJECTED,
                           conflictingProofs |-> a.conflictingProofs,
                           aborted |-> ~c.asserted, removed |-> {}]
                 ELSE [pool |-> a.pool, status |-> SUCCEED,
                       conflictingProofs |-> a.conflictingProofs,
                       aborted |-> FALSE, removed |-> {}]

(***************************************************************************)
(* ProofPool::removeProof                                                  *)
(***************************************************************************)

\* removeProof that erases one entry of the proof, the one find(proofid)
\* gives, in place of all of them.
removeProofOneEntry(pl, proof) ==
    LET held   == { e \in pl : getId(e.proof) = getId(proof) }
        erased == IF held = {} THEN {} ELSE {CHOOSE e \in held : TRUE}
    IN  [pool |-> pl \ erased, result |-> Cardinality(erased) # 0]

\* poolView.erase(proofid): every entry of the proof goes; the count of the
\* erased entries converts to the bool returned.
removeProof(pl, proof) ==
    LET erased == { e \in pl : getId(e.proof) = getId(proof) }
    IN  [pool |-> pl \ erased, result |-> Cardinality(erased) # 0]

\* removeConflicting that empties the pool.
removeConflictingAll(pl, conflictingProofs) == {}

\* removeConflicting that removes the most preferred conflicting proof only.
removeConflictingFirstOnly(pl, conflictingProofs) ==
    IF conflictingProofs = {} THEN pl
    ELSE removeProof(pl, begin(conflictingProofs)).pool

\* for (auto &conflictingProof : conflictingProofs) removeProof(...)
RECURSIVE removeConflicting(_, _)
removeConflicting(pl, conflictingProofs) ==
    IF conflictingProofs = {} THEN pl
    ELSE LET p == begin(conflictingProofs)
         IN  removeConflicting(removeProof(pl, p).pool, conflictingProofs \ {p})

(***************************************************************************)
(* ProofPool::addProofIfPreferred                                          *)
(***************************************************************************)

\* !added, for an AddProofStatus
Not(added) == added = 0

\* addProofIfPreferred with the arguments of the comparator swapped.
addProofIfPreferredSwapped(pl, proof, conflictingProofsIn) ==
    LET added == addProofIfNoConflict(pl, proof, conflictingProofsIn)
    IN  IF added.aborted THEN added
        ELSE IF Not(added.status)
                /\ compare(begin(added.conflictingProofs), proof)
        THEN LET vacated == removeConflicting(added.pool, added.conflictingProofs)
                 retry == addProofIfNoConflict(vacated, proof, {})
             IN  [pool |-> retry.pool, status |-> retry.status,
                  conflictingProofs |-> added.conflictingProofs,
                  aborted |-> retry.aborted \/ retry.status # SUCCEED,
                  removed |-> added.conflictingProofs]
        ELSE added

addProofIfPreferred(pl, proof, conflictingProofsIn) ==
    LET added == addProofIfNoConflict(pl, proof, conflictingProofsIn)
    IN  IF added.aborted THEN added
        ELSE IF Not(added.status)
                /\ compare(proof, begin(added.conflictingProofs))
        THEN LET vacated == removeConflicting(added.pool, added.conflictingProofs)
                 \* addProofIfNoConflict(proof): the overload with a set of
                 \* its own, so the caller's set keeps the evicted proofs.
                 retry == addProofIfNoConflict(vacated, proof, {})
             IN  [pool |-> retry.pool, status |-> retry.status,
                  conflictingProofs |-> added.conflictingProofs,
                  \* assert(added == AddProofStatus::SUCCEED)
                  aborted |-> retry.aborted \/ retry.status # SUCCEED,
                  \* the proofs handed to removeProof
                  removed |-> added.conflictingProofs]
        ELSE added

(***************************************************************************)
(* ProofPool::getProof                                                     *)
(***************************************************************************)
getProofById(pl, proofid) ==
    LET it == { e \in pl : getId(e.proof) = proofid }
    IN  IF it = {} THEN NullProof ELSE (CHOOSE e \in it : TRUE).proof

getProofByOutpoint(pl, outpoint) ==
    LET it == find(pl, outpoint)
    IN  IF it = {} THEN NullProof ELSE (CHOOSE e \in it : TRUE).proof

(***************************************************************************)
(* ProofPool::rescan                                                       *)
(***************************************************************************)

\* PeerManager::registerProof: the peer registry counts, for each proof,
\* the peers registered for it (a peer's score is that of its proof).
registerProof(reg, proof) == [reg EXCEPT ![proof] = @ + 1]

\* A replay that passes each proof once, however many entries it has.
RECURSIVE replayOncePerProof(_, _, _, _)
replayOncePerProof(previousPool, pl, reg, calls) ==
    IF previousPool = {} THEN [registry |-> reg, calls |-> calls]
    ELSE LET entry == CHOOSE e \in previousPool : TRUE
         IN  replayOncePerProof(
                 { e \in previousPool : getId(e.proof) # getId(entry.proof) },
                 pl, registerProof(reg, entry.proof),
                 calls \cup {[entry |-> entry, pool |-> pl]})

\* for (auto &entry : previousPool) peerManager.registerProof(entry.proof)
\* with pl the live pool while the loop runs.  The by-outpoint index is
\* hashed, so the order of the entries is any; the registry and the set of
\* the calls made do not depend on it.
RECURSIVE replay(_, _, _, _)
replay(previousPool, pl, reg, calls) ==
    IF previousPool = {} THEN [registry |-> reg, calls |-> calls]
    ELSE LET entry == CHOOSE e \in previousPool : TRUE
         IN  replay(previousPool \ {entry}, pl,
                    registerProof(reg, entry.proof),
                    calls \cup {[entry |-> entry, pool |-> pl]})

\* rescan that replays the pool after clearing it, not the previous pool.
rescanReplaysClearedPool(pl, reg) ==
    LET cleared == {}
        r       == replay(cleared, cleared, reg, {})
    IN  [pool |-> cleared, registry |-> r.registry, calls |-> r.calls]

\* rescan that copies the pool and does not clear it.
rescanKeepsPool(pl, reg) ==
    LET r == replay(pl, pl, reg, {})
    IN  [pool |-> pl, registry |-> r.registry, calls |-> r.calls]

rescan(pl, reg) ==
    LET previousPool == pl       \* std::move(pool)
        cleared      == {}       \* pool.clear()
        r            == replay(previousPool, cleared, reg, {})
    IN  [pool |-> cleared, registry |-> r.registry, calls |-> r.calls]

\* A PeerManager with no peer.
NoPeers == [p \in Proofs |-> 0]

(***************************************************************************)
(* The slot allocator (src/src/avalanche/peermanager.h).                   *)
(***************************************************************************)

\* Slot(startIn, stopIn): the half-open interval [start, stop).
Slot(startIn, stopIn) == [start |-> startIn, stop |-> stopIn]

\* A contains that leaves out the start of the slot.
containsOpenStart(s, slot) == s.start < slot /\ slot < s.stop

contains(s, slot) == s.start <= slot /\ slot < s.stop
\* A precedes that does not count the sample at stop itself as past the slot.
precedesStrict(s, slot) == slot > s.stop

precedes(s, slot) == slot >= s.stop
follows(s, slot) == s.start > slot

\* The width of a slot: the score of the peer that owns it.
Width(s) == s.stop - s.start

\* selectPeerImpl(slots, slot, max) is a binary search of the slots, which
\* are in ascending order of start.  Indices are those of the vector, from
\* 0; slots[i] of the vector is slots[i + 1] of the sequence.  The state of
\* the loop: the range [begin, end) still to search, the index last read
\* (probe), the value to return, and whether the function has returned.
SearchBegin(slots) ==
    [begin |-> 0, end |-> Len(slots), probe |-> 0,
     result |-> NO_PEER, done |-> FALSE]

\* A turn of the loop that keeps the slot it has just read in the range
\* when the slot precedes the sample.
SearchStepKeepsProbe(slots, slot, max, st) ==
    IF st.begin >= st.end
    THEN [st EXCEPT !.result = NO_PEER, !.done = TRUE]
    ELSE LET i == st.begin + ((st.end - st.begin) \div 2)
         IN  IF contains(slots[i + 1], slot)
             THEN [st EXCEPT !.probe = i, !.result = i, !.done = TRUE]
             ELSE IF precedes(slots[i + 1], slot)
             THEN [st EXCEPT !.probe = i, !.begin = i]
             ELSE [st EXCEPT !.probe = i, !.end = i]

\* One turn of the loop, or the return that follows it.  max bounds the
\* sample where it is drawn; the search reads the slots only, so a max
\* beyond the last stop changes nothing.
SearchStep(slots, slot, max, st) ==
    IF st.begin >= st.end
    THEN [st EXCEPT !.result = NO_PEER, !.done = TRUE]
    ELSE LET i == st.begin + ((st.end - st.begin) \div 2)
         IN  IF contains(slots[i + 1], slot)
             THEN [st EXCEPT !.probe = i, !.result = i, !.done = TRUE]
             ELSE IF precedes(slots[i + 1], slot)
             THEN [st EXCEPT !.probe = i, !.begin = i + 1]
             ELSE IF follows(slots[i + 1], slot)
             THEN [st EXCEPT !.probe = i, !.end = i]
             ELSE [st EXCEPT !.probe = i, !.result = NO_PEER, !.done = TRUE]

RECURSIVE SearchLoop(_, _, _, _)
SearchLoop(slots, slot, max, st) ==
    IF st.done THEN st.result
    ELSE SearchLoop(slots, slot, max, SearchStep(slots, slot, max, st))

selectPeerImpl(slots, slot, max) ==
    SearchLoop(slots, slot, max, SearchBegin(slots))

\* A PeerManager with no peer: no slot, slotCount = 0, fragmentation = 0.
\* peerSlots[p + 1] holds the indices of the slots peer p owns: one when its
\* score is positive, none when it is 0.
EmptyPeerManager ==
    [slots |-> <<>>, slotCount |-> 0, fragmentation |-> 0, peerSlots |-> <<>>]

\* The slot [slotCount, slotCount + score) appended for peer p, and
\* slotCount advanced by score.
AppendSlot(m, p, score) ==
    [slots |-> Append(m.slots, Slot(m.slotCount, m.slotCount + score)),
     slotCount |-> m.slotCount + score,
     fragmentation |-> m.fragmentation,
     peerSlots |-> [m.peerSlots EXCEPT ![p + 1] = {Len(m.slots)}]]

\* addPeer(score): a new peer, of index the number of peers before it; a
\* score of 0 creates no slot.
addPeer(m, score) ==
    LET p     == Len(m.peerSlots)
        added == [m EXCEPT !.peerSlots = Append(@, {})]
    IN  IF score = 0 THEN added ELSE AppendSlot(added, p, score)

\* The total width of the slots of indices in owned.
RECURSIVE TotalWidth(_, _)
TotalWidth(slots, owned) ==
    IF owned = {} THEN 0
    ELSE LET k == CHOOSE x \in owned : TRUE
         IN  Width(slots[k + 1]) + TotalWidth(slots, owned \ {k})

\* rescorePeer(i, score): the slot of peer i is retired, it degenerates to
\* an empty width and its width is added to fragmentation; a positive score
\* gets a new slot, appended at slotCount.  No other slot is touched.
rescorePeer(m, i, score) ==
    LET owned   == m.peerSlots[i + 1]
        retired ==
            [slots |-> [k \in 1..Len(m.slots) |->
                          IF (k - 1) \in owned
                          THEN Slot(m.slots[k].start, m.slots[k].start)
                          ELSE m.slots[k]],
             slotCount |-> m.slotCount,
             fragmentation |-> m.fragmentation + TotalWidth(m.slots, owned),
             peerSlots |-> [m.peerSlots EXCEPT ![i + 1] = {}]]
    IN  IF score = 0 THEN retired ELSE AppendSlot(retired, i, score)

\* A removePeer that leaves the peer a score of 1.
removePeerToOne(m, i) == rescorePeer(m, i, 1)

\* A removePeer that retires the first peer, whichever peer is meant.
removePeerFirst(m, i) == rescorePeer(m, 0, 0)

\* A removePeer that leaves the PeerManager as it is.
removePeerNothing(m, i) == m

\* void removePeer(size_t i) { rescorePeer(i, 0); }
removePeer(m, i) == rescorePeer(m, i, 0)

\* The peer that owns the slot of index k; NO_PEER when none does.
OwnerOf(m, k) ==
    LET owners == { p \in 0..(Len(m.peerSlots) - 1) : k \in m.peerSlots[p + 1] }
    IN  IF owners = {} THEN NO_PEER ELSE CHOOSE p \in owners : TRUE

\* selectPeer() with slot the sample drawn in [0, slotCount).
selectPeer(m, slot) ==
    IF m.slotCount = 0 THEN NO_PEER
    ELSE OwnerOf(m, selectPeerImpl(m.slots, slot, m.slotCount))

\* Compaction: the retired and zero-width entries are dropped and the
\* others laid out again from 0 without a gap, in their order; k is the
\* index of the next slot to move and out the PeerManager rebuilt so far.
RECURSIVE Relay(_, _, _)
Relay(m, k, out) ==
    IF k >= Len(m.slots) THEN out
    ELSE LET s == m.slots[k + 1]
             p == OwnerOf(m, k)
         IN  IF p = NO_PEER \/ Width(s) = 0 THEN Relay(m, k + 1, out)
             ELSE Relay(m, k + 1, AppendSlot(out, p, Width(s)))

\* A compaction that drops the retired entries and leaves the others where
\* they are.
compactDropsOnly(m) ==
    LET live == { k \in 0..(Len(m.slots) - 1) :
                    OwnerOf(m, k) # NO_PEER /\ Width(m.slots[k + 1]) > 0 }
        rank(k) == Cardinality({ j \in live : j < k })
    IN  [slots |-> [n \in 1..Cardinality(live) |->
                      m.slots[(CHOOSE k \in live : rank(k) = n - 1) + 1]],
         slotCount |-> m.slotCount,
         fragmentation |-> 0,
         peerSlots |-> [p \in 1..Len(m.peerSlots) |->
                          { rank(k) : k \in m.peerSlots[p] }]]

compact(m) ==
    Relay(m, 0, [slots |-> <<>>, slotCount |-> 0, fragmentation |-> 0,
                 peerSlots |-> [p \in 1..Len(m.peerSlots) |-> {}]])

(***************************************************************************)
(* The state machine.  last records the last call: its name, its           *)
(* arguments, what it returned and the pool it started from.  The          *)
(* PeerManager is the caller's: rescan takes it as an argument.            *)
(***************************************************************************)
\* An empty pool that no call has touched.
PoolInit ==
    /\ pool = {}
    /\ aborted = FALSE
    /\ succeeded = {}
    /\ last = [op |-> "none", proof |-> NullProof, conflictingProofsIn |-> {},
               returned |-> <<>>, conflictingProofs |-> {},
               poolBefore |-> {}, succeededBefore |-> {},
               peerManagerIn |-> NoPeers, peerManager |-> NoPeers,
               calls |-> {}, repeated |-> FALSE]

\* A PeerManager as constructed, that no call has touched.
PeersInit ==
    /\ pm = EmptyPeerManager
    /\ scores = <<>>
    /\ lastPm = [op |-> "none", i |-> 0, score |-> 0, slot |-> 0,
                 returned |-> <<>>, before |-> EmptyPeerManager,
                 scoresBefore |-> <<>>]

\* No search of a slot under way.
SearchInit ==
    search = [slots |-> <<>>, slot |-> 0, max |-> 0, st |-> SearchBegin(<<>>)]

Init == PoolInit /\ PeersInit /\ SearchInit

\* What the caller's conflictingProofs may hold on entry.
ConflictingProofsOnEntry == { {}, Proofs }

AddProofIfNoConflict ==
    /\ ~aborted
    /\ \E proof \in Proofs, conflictingProofsIn \in ConflictingProofsOnEntry :
         LET r == addProofIfNoConflict(pool, proof, conflictingProofsIn)
         IN  /\ pool' = r.pool
             /\ aborted' = r.aborted
             /\ succeeded' = (succeeded \ r.removed)
                                \cup (IF r.status = SUCCEED THEN {proof} ELSE {})
             /\ last' = [op |-> "addProofIfNoConflict", proof |-> proof,
                         conflictingProofsIn |-> conflictingProofsIn,
                         returned |-> <<r.status>>,
                         conflictingProofs |-> r.conflictingProofs,
                         poolBefore |-> pool, succeededBefore |-> succeeded,
                         peerManagerIn |-> NoPeers, peerManager |-> NoPeers,
                         calls |-> {}, repeated |-> FALSE]
    /\ UNCHANGED <<peerVars, search>>

AddProofIfPreferred ==
    /\ ~aborted
    /\ \E proof \in Proofs, conflictingProofsIn \in ConflictingProofsOnEntry :
         LET r == addProofIfPreferred(pool, proof, conflictingProofsIn)
         IN  /\ pool' = r.pool
             /\ aborted' = r.aborted
             /\ succeeded' = (succeeded \ r.removed)
                                \cup (IF r.status = SUCCEED THEN {proof} ELSE {})
             /\ last' = [op |-> "addProofIfPreferred", proof |-> proof,
                         conflictingProofsIn |-> conflictingProofsIn,
                         returned |-> <<r.status>>,
                         conflictingProofs |-> r.conflictingProofs,
                         poolBefore |-> pool, succeededBefore |-> succeeded,
                         peerManagerIn |-> NoPeers, peerManager |-> NoPeers,
                         calls |-> {}, repeated |-> FALSE]
    /\ UNCHANGED <<peerVars, search>>

RemoveProof ==
    /\ ~aborted
    /\ \E proof \in Proofs :
         LET r == removeProof(pool, proof)
         IN  /\ pool' = r.pool
             /\ succeeded' = succeeded \ {proof}
             /\ last' = [op |-> "removeProof", proof |-> proof,
                         conflictingProofsIn |-> {},
                         returned |-> <<r.result>>,
                         conflictingProofs |-> {},
                         poolBefore |-> pool, succeededBefore |-> succeeded,
                         peerManagerIn |-> NoPeers, peerManager |-> NoPeers,
                         calls |-> {}, repeated |-> FALSE]
    /\ UNCHANGED <<aborted, peerVars, search>>

\* The PeerManager handed to rescan: one with no peer yet, or the one the
\* call before, a rescan too, has just filled.
PeerManagers ==
    {NoPeers} \cup (IF last.op = "rescan" THEN {last.peerManager} ELSE {})

Rescan ==
    /\ ~aborted
    /\ \E peerManager \in PeerManagers :
         LET r == rescan(pool, peerManager)
         IN  /\ pool' = r.pool
             /\ last' = [op |-> "rescan", proof |-> NullProof,
                         conflictingProofsIn |-> {},
                         returned |-> <<>>, conflictingProofs |-> {},
                         poolBefore |-> pool, succeededBefore |-> succeeded,
                         peerManagerIn |-> peerManager,
                         peerManager |-> r.registry, calls |-> r.calls,
                         \* the PeerManager of the rescan just before
                         repeated |-> /\ last.op = "rescan"
                                      /\ peerManager = last.peerManager]
    /\ succeeded' = {}
    /\ UNCHANGED <<aborted, peerVars, search>>

Next ==
    \/ AddProofIfNoConflict
    \/ AddProofIfPreferred
    \/ RemoveProof
    \/ Rescan

Spec == Init /\ [][Next]_vars

(***************************************************************************)
(* The PeerManager as a state machine: one action per public operation,    *)
(* and one for a compaction pass.  lastPm records the last call, its       *)
(* arguments, what it returned and the PeerManager it started from.        *)
(***************************************************************************)

\* The peers of a PeerManager, by index.
PeerIndices(m) == 0..(Len(m.peerSlots) - 1)

AddPeer ==
    /\ Len(pm.peerSlots) < MaxPeers
    /\ \E score \in 0..MaxScore :
         /\ score > 0 => Len(pm.slots) < MaxSlots
         /\ pm' = addPeer(pm, score)
         /\ scores' = Append(scores, score)
         /\ lastPm' = [op |-> "addPeer", i |-> Len(pm.peerSlots),
                       score |-> score, slot |-> 0, returned |-> <<>>,
                       before |-> pm, scoresBefore |-> scores]
    /\ UNCHANGED <<poolVars, search>>

RescorePeer ==
    /\ \E i \in PeerIndices(pm), score \in 0..MaxScore :
         /\ score > 0 => Len(pm.slots) < MaxSlots
         /\ pm' = rescorePeer(pm, i, score)
         /\ scores' = [scores EXCEPT ![i + 1] = score]
         /\ lastPm' = [op |-> "rescorePeer", i |-> i, score |-> score,
                       slot |-> 0, returned |-> <<>>,
                       before |-> pm, scoresBefore |-> scores]
    /\ UNCHANGED <<poolVars, search>>

RemovePeer ==
    /\ \E i \in PeerIndices(pm) :
         /\ pm' = removePeer(pm, i)
         /\ scores' = [scores EXCEPT ![i + 1] = 0]
         /\ lastPm' = [op |-> "removePeer", i |-> i, score |-> 0,
                       slot |-> 0, returned |-> <<>>,
                       before |-> pm, scoresBefore |-> scores]
    /\ UNCHANGED <<poolVars, search>>

\* The samples selectPeer can draw: those of [0, slotCount), and 0 when
\* slotCount is 0.
Samples(m) == IF m.slotCount = 0 THEN {0} ELSE 0..(m.slotCount - 1)

SelectPeer ==
    /\ \E slot \in Samples(pm) :
         lastPm' = [op |-> "selectPeer", i |-> 0, score |-> 0,
                    slot |-> slot, returned |-> <<selectPeer(pm, slot)>>,
                    before |-> pm, scoresBefore |-> scores]
    /\ UNCHANGED <<pm, scores, poolVars, search>>

Compact ==
    /\ pm' = compact(pm)
    /\ lastPm' = [op |-> "compact", i |-> 0, score |-> 0, slot |-> 0,
                  returned |-> <<>>, before |-> pm, scoresBefore |-> scores]
    /\ UNCHANGED <<scores, poolVars, search>>

NextPeers ==
    \/ AddPeer
    \/ RescorePeer
    \/ RemovePeer
    \/ SelectPeer
    \/ Compact

SpecPeers == Init /\ [][NextPeers]_vars

(***************************************************************************)
(* selectPeerImpl on its own: the slots, the sample and max are any, and   *)
(* the loop of the search runs one turn at a time.                         *)
(***************************************************************************)

\* The positions the slots of a search lie on.
MaxPos == MaxSlots + 1

\* The sequences of at most n slots laid out from position lo on: each slot
\* starts after the start and not before the stop of the one before it.  A
\* slot may be empty (a retired one) and slots may leave gaps.
RECURSIVE SlotSeqs(_, _)
SlotSeqs(lo, n) ==
    {<<>>} \cup
    (IF n = 0 THEN {}
     ELSE UNION { UNION { { <<Slot(a, b)>> \o t :
                              t \in SlotSeqs(IF b > a THEN b ELSE a + 1, n - 1) } :
                          b \in a..MaxPos } :
                  a \in lo..MaxPos })

SelectInit ==
    /\ PoolInit
    /\ PeersInit
    /\ \E q \in SlotSeqs(0, MaxSlots), x \in 1..(MaxPos + 1) :
         \E slot \in 0..(x - 1) :
            search = [slots |-> q, slot |-> slot, max |-> x,
                      st |-> SearchBegin(q)]

\* One turn of the loop of selectPeerImpl, or its return.
Search ==
    /\ ~search.st.done
    /\ search' = [search EXCEPT
                    !.st = SearchStep(search.slots, search.slot, search.max, @)]
    /\ UNCHANGED <<poolVars, peerVars>>

NextSelect == Search

SpecSelect == SelectInit /\ [][NextSelect]_vars

\* The loop is not left to idle: a turn that can be taken is taken.
SpecSelectFair == SpecSelect /\ WF_vars(Search)

(***************************************************************************)
(* What the pool answers, and what a call has to do with a pool.           *)
(***************************************************************************)

\* The outpoints a proof stakes.
StakedOutpoints(proof) == { getStakes(proof)[i] : i \in 1..Len(getStakes(proof)) }

\* The proofs other than proof that hold one of its outpoints in pl.
ConflictsOf(pl, proof) ==
    { e.proof : e \in { x \in pl : getUTXO(x) \in StakedOutpoints(proof) } }
        \ {proof}

FullyPresent(pl, proof) ==
    /\ getProofById(pl, getId(proof)) = proof
    /\ \A o \in StakedOutpoints(proof) : getProofByOutpoint(pl, o) = proof

FullyAbsent(pl, proof) ==
    /\ getProofById(pl, getId(proof)) = NullProof
    /\ \A o \in Outpoints : getProofByOutpoint(pl, o) # proof

Returned(op, value) == last.op = op /\ last.returned = <<value>>

(***************************************************************************)
(* C1.  Pool uniqueness: between public calls, no staked outpoint is       *)
(* mapped to more than one proof by the by-outpoint index.                 *)
(***************************************************************************)
C1_PoolUniqueness ==
    ~aborted =>
        \A e1, e2 \in pool : getUTXO(e1) = getUTXO(e2) => e1.proof = e2.proof

\* A candidate has replaced an incumbent on an outpoint both stake, beside
\* another held proof.
C1_Witness ==
    /\ Returned("addProofIfPreferred", SUCCEED)
    /\ last.conflictingProofs # {}
    /\ Cardinality({ e.proof : e \in pool }) >= 2

(***************************************************************************)
(* C2.  Atomicity of rejection: when addProofIfNoConflict(P) returns       *)
(* REJECTED the entries of the pool are those from before the call, and    *)
(* none is an entry of P.                                                  *)
(***************************************************************************)
C2_RejectionAtomic ==
    (~aborted /\ Returned("addProofIfNoConflict", REJECTED)) =>
        /\ pool = last.poolBefore
        /\ \A e \in pool : e.proof # last.proof

\* A rejected proof one stake of which was inserted before the collision.
C2_Witness ==
    /\ ~aborted
    /\ Returned("addProofIfNoConflict", REJECTED)
    /\ find(last.poolBefore, getStakes(last.proof)[1]) = {}
    /\ Len(getStakes(last.proof)) >= 2

(***************************************************************************)
(* C3.  Full-or-absent registration: after a public call returns, every    *)
(* proof P is fully present (getProof(P.id) is P and getProof(o) is P for  *)
(* each outpoint o that P stakes) or fully absent (getProof(P.id) is null  *)
(* and getProof(o) is P for no o); and getProof(o) = P implies that        *)
(* getProof(P.id) = P and that P stakes o.                                 *)
(***************************************************************************)
C3_FullOrAbsent ==
    ~aborted =>
        \A P \in Proofs :
            /\ FullyPresent(pool, P) \/ FullyAbsent(pool, P)
            /\ \A o \in Outpoints :
                 getProofByOutpoint(pool, o) = P =>
                     /\ getProofById(pool, getId(P)) = P
                     /\ o \in StakedOutpoints(P)

\* A rejected proof, partly inserted on the way, is fully absent next to a
\* fully present incumbent of two stakes or more.
C3_Witness ==
    /\ ~aborted
    /\ Returned("addProofIfNoConflict", REJECTED)
    /\ \E o \in StakedOutpoints(last.proof) : find(last.poolBefore, o) = {}
    /\ FullyAbsent(pool, last.proof)
    /\ \E Q \in last.conflictingProofs :
         Len(getStakes(Q)) >= 2 /\ FullyPresent(pool, Q)

(***************************************************************************)
(* C4.  Preference resolution, the candidate wins: when a proof A that is  *)
(* not in the pool conflicts with held proofs and the comparator ranks A   *)
(* ahead of the most preferred of them, addProofIfPreferred(A) returns     *)
(* SUCCEED with no assert failing, every proof that conflicted with A is   *)
(* absent afterwards and getProof(O) is A for every outpoint O A stakes.   *)
(***************************************************************************)
C4_CandidateWins ==
    LET A         == last.proof
        conflicts == ConflictsOf(last.poolBefore, A)
    IN  (/\ last.op = "addProofIfPreferred"
         /\ ~containsProofId(last.poolBefore, getId(A))
         /\ conflicts # {}
         /\ compare(A, begin(conflicts)))
        => /\ ~aborted
           /\ last.returned = <<SUCCEED>>
           /\ \A c \in conflicts : FullyAbsent(pool, c)
           /\ \A O \in StakedOutpoints(A) : getProofByOutpoint(pool, O) = A

\* A candidate has evicted two incumbents.
C4_Witness ==
    /\ ~aborted
    /\ Returned("addProofIfPreferred", SUCCEED)
    /\ Cardinality(ConflictsOf(last.poolBefore, last.proof)) >= 2
    /\ FullyPresent(pool, last.proof)

(***************************************************************************)
(* C5.  Preference resolution, the incumbent wins: when a proof A          *)
(* conflicts with held proofs and the comparator does not rank A ahead of  *)
(* the most preferred of them, addProofIfPreferred(A) returns REJECTED,    *)
(* every incumbent remains and the pool is as before the call.             *)
(***************************************************************************)
C5_IncumbentWins ==
    LET A         == last.proof
        conflicts == ConflictsOf(last.poolBefore, A)
    IN  (/\ last.op = "addProofIfPreferred"
         /\ conflicts # {}
         /\ ~compare(A, begin(conflicts)))
        => /\ ~aborted
           /\ last.returned = <<REJECTED>>
           /\ pool = last.poolBefore
           /\ \A c \in conflicts : FullyPresent(pool, c)

\* A rejected candidate that outranks one of its conflicts, not the best.
C5_Witness ==
    /\ ~aborted
    /\ Returned("addProofIfPreferred", REJECTED)
    /\ \E c \in ConflictsOf(last.poolBefore, last.proof) : compare(last.proof, c)
    /\ pool = last.poolBefore

(***************************************************************************)
(* C6.  Duplicate insert: when addProofIfNoConflict(P) has returned        *)
(* SUCCEED (called by the user or by addProofIfPreferred) and P has not    *)
(* been removed since, addProofIfNoConflict(P) and addProofIfPreferred(P)  *)
(* return DUPLICATED, leave the entries of the pool as they are and leave  *)
(* conflictingProofs empty.                                                *)
(***************************************************************************)
C6_DuplicateInsert ==
    (/\ last.op \in {"addProofIfNoConflict", "addProofIfPreferred"}
     /\ last.proof \in last.succeededBefore)
    => /\ ~aborted
       /\ last.returned = <<DUPLICATED>>
       /\ pool = last.poolBefore
       /\ last.conflictingProofs = {}

\* addProofIfPreferred of a proof of two stakes added before, with a set
\* that was not empty on entry.
C6_Witness ==
    /\ Returned("addProofIfPreferred", DUPLICATED)
    /\ last.proof \in last.succeededBefore
    /\ Len(getStakes(last.proof)) >= 2
    /\ last.conflictingProofsIn # {}
    /\ last.conflictingProofs = {}

(***************************************************************************)
(* C7.  Conflict reporting: when addProofIfNoConflict(P) returns REJECTED, *)
(* conflictingProofs is the set of the proofs other than P that held one   *)
(* of P's outpoints before the call; when it returns SUCCEED or            *)
(* DUPLICATED, conflictingProofs is empty, whatever it held on entry.      *)
(***************************************************************************)
C7_ConflictReporting ==
    (~aborted /\ last.op = "addProofIfNoConflict") =>
        /\ last.returned = <<REJECTED>> =>
             /\ last.conflictingProofs = ConflictsOf(last.poolBefore, last.proof)
             /\ last.conflictingProofs # {}
             /\ last.proof \notin last.conflictingProofs
        /\ last.returned \in {<<SUCCEED>>, <<DUPLICATED>>} =>
             last.conflictingProofs = {}
        /\ last.returned \in {<<REJECTED>>, <<SUCCEED>>, <<DUPLICATED>>}

\* A rejection by two incumbents, one of them holding two of the candidate's
\* outpoints, reported in a set that was not empty on entry.
C7_Witness ==
    /\ ~aborted
    /\ Returned("addProofIfNoConflict", REJECTED)
    /\ last.conflictingProofsIn = Proofs
    /\ Cardinality(last.conflictingProofs) >= 2
    /\ \E Q \in last.conflictingProofs :
         Cardinality(StakedOutpoints(Q) \cap StakedOutpoints(last.proof)) >= 2

(***************************************************************************)
(* C8.  removeProof(P) returns true exactly when P was present before the  *)
(* call; afterwards getProof(P.id) is null and no outpoint maps to P, and  *)
(* the entries of every other proof are unchanged; when P was absent the   *)
(* pool is unchanged.                                                      *)
(***************************************************************************)
C8_RemoveProof ==
    last.op = "removeProof" =>
        LET P   == last.proof
            was == containsProofId(last.poolBefore, getId(P))
        IN  /\ last.returned = <<was>>
            /\ getProofById(pool, getId(P)) = NullProof
            /\ \A o \in Outpoints : getProofByOutpoint(pool, o) # P
            /\ { e \in pool : e.proof # P }
                 = { e \in last.poolBefore : e.proof # P }
            /\ ~was => pool = last.poolBefore

\* A proof of two stakes is removed and another proof stays.
C8_Witness ==
    /\ Returned("removeProof", TRUE)
    /\ Len(getStakes(last.proof)) >= 2
    /\ pool # {}
    /\ pool # last.poolBefore

(***************************************************************************)
(* C9.  rescan(peerManager) hands every proof the pool held before the     *)
(* call to peerManager.registerProof, and the pool is cleared before the   *)
(* first of these calls: registerProof not inserting again, getProof is    *)
(* null afterwards for every proof id and outpoint held before.            *)
(***************************************************************************)
C9_Rescan ==
    last.op = "rescan" =>
        /\ \A e \in last.poolBefore :
             /\ \E c \in last.calls : c.entry.proof = e.proof
             /\ last.peerManager[e.proof] > last.peerManagerIn[e.proof]
        /\ \A c \in last.calls : c.pool = {}
        /\ \A e \in last.poolBefore :
             /\ getProofById(pool, getId(e.proof)) = NullProof
             /\ getProofByOutpoint(pool, getUTXO(e)) = NullProof

\* A rescan of a pool that held two proofs.
C9_Witness ==
    /\ last.op = "rescan"
    /\ Cardinality({ e.proof : e \in last.poolBefore }) >= 2
    /\ last.calls # {}

(***************************************************************************)
(* C10.  Rescan idempotence: a rescan(peerManager) that follows a          *)
(* rescan(peerManager) at once leaves the peer registry as the first left  *)
(* it.                                                                     *)
(***************************************************************************)
C10_RescanIdempotent ==
    (last.op = "rescan" /\ last.repeated) =>
        last.peerManager = last.peerManagerIn

\* The second of two rescans in a row, the first of which registered peers.
C10_Witness ==
    /\ last.op = "rescan"
    /\ last.repeated
    /\ last.peerManagerIn # NoPeers
    /\ last.peerManager = last.peerManagerIn

(***************************************************************************)
(* What a search has to do with its slots.                                 *)
(***************************************************************************)

\* The indices of the slots that contain the sample: what a linear scan of
\* the vector finds.
Hits(slots, slot) ==
    { i \in 0..(Len(slots) - 1) : contains(slots[i + 1], slot) }

\* The slots are in strictly ascending order of start and do not overlap.
AscendingDisjoint(slots) ==
    \A i, j \in 1..Len(slots) :
        i < j => /\ slots[i].start < slots[j].start
                 /\ slots[i].stop <= slots[j].start

(***************************************************************************)
(* C11.  Selection correctness: for slots in ascending order of start that *)
(* do not overlap and a sample v in [0, max), selectPeerImpl(slots, v,     *)
(* max) returns the index of the one slot that contains v, the one a       *)
(* linear scan finds, and NO_PEER when no slot contains v.                 *)
(***************************************************************************)
C11_SelectionCorrectness ==
    (AscendingDisjoint(search.slots) /\ search.slot < search.max) =>
        LET hits     == Hits(search.slots, search.slot)
            returned == selectPeerImpl(search.slots, search.slot, search.max)
        IN  /\ Cardinality(hits) <= 1
            /\ IF hits = {} THEN returned = NO_PEER ELSE returned \in hits
            /\ search.st.done => search.st.result = returned

\* A search over three slots with a gap has returned the index of the last
\* one, found after a slot that precedes the sample.
C11_Witness ==
    /\ search.st.done
    /\ Len(search.slots) = 3
    /\ AscendingDisjoint(search.slots)
    /\ search.slots[1].stop < search.slots[2].start
    /\ search.slot < search.max
    /\ search.st.result = 2
    /\ search.st.begin > 0

(***************************************************************************)
(* What the slots have to do with the scores of the peers.                 *)
(***************************************************************************)

RECURSIVE SumSeq(_)
SumSeq(q) == IF q = <<>> THEN 0 ELSE q[Len(q)] + SumSeq(SubSeq(q, 1, Len(q) - 1))

\* The score peer p has in m: the width of what it owns.
ScoreOf(m, p) == TotalWidth(m.slots, m.peerSlots[p + 1])

(***************************************************************************)
(* C12.  Fragmentation bound: in every state that addPeer, rescorePeer and *)
(* removePeer calls with peer indices in range lead to, fragmentation is   *)
(* at most slotCount, and slotCount - fragmentation is the sum of the      *)
(* current scores of all the peers.                                        *)
(***************************************************************************)
C12_FragmentationBound ==
    /\ pm.fragmentation <= pm.slotCount
    /\ pm.slotCount - pm.fragmentation = SumSeq(scores)
    /\ Len(pm.peerSlots) = Len(scores)
    /\ \A p \in PeerIndices(pm) : ScoreOf(pm, p) = scores[p + 1]

\* A peer among several has been given a new positive score, and dead space
\* is left where its slot was.
C12_Witness ==
    /\ lastPm.op = "rescorePeer"
    /\ lastPm.score > 0
    /\ lastPm.scoresBefore[lastPm.i + 1] > 0
    /\ Len(scores) >= 2
    /\ pm.fragmentation > 0
    /\ pm.fragmentation < pm.slotCount

\* The slots that peers own: the live slots of m.
LiveSlots(m) == UNION { m.peerSlots[p + 1] : p \in PeerIndices(m) }

(***************************************************************************)
(* C13.  Slot ordering: after any sequence of addPeer, rescorePeer and     *)
(* removePeer calls the live slots do not overlap pairwise, are in         *)
(* strictly ascending order of start and lie inside [0, slotCount); and    *)
(* rescorePeer (removePeer too) never changes the bounds of the slot of    *)
(* any other peer.                                                         *)
(***************************************************************************)
C13_SlotOrdering ==
    /\ \A j, k \in LiveSlots(pm) :
         j < k => /\ pm.slots[j + 1].start < pm.slots[k + 1].start
                  /\ pm.slots[j + 1].stop <= pm.slots[k + 1].start
    /\ \A k \in LiveSlots(pm) :
         /\ 0 <= pm.slots[k + 1].start
         /\ pm.slots[k + 1].start < pm.slots[k + 1].stop
         /\ pm.slots[k + 1].stop <= pm.slotCount
    /\ AscendingDisjoint(pm.slots)
    /\ lastPm.op \in {"rescorePeer", "removePeer"} =>
         \A p \in PeerIndices(lastPm.before) \ {lastPm.i} :
            /\ pm.peerSlots[p + 1] = lastPm.before.peerSlots[p + 1]
            /\ \A k \in pm.peerSlots[p + 1] :
                 pm.slots[k + 1] = lastPm.before.slots[k + 1]

\* A peer has been given a larger score while the peer after it holds the
\* slot that follows its own.
C13_Witness ==
    /\ lastPm.op = "rescorePeer"
    /\ Len(scores) = 2
    /\ lastPm.i = 0
    /\ lastPm.scoresBefore = <<1, 1>>
    /\ lastPm.score = 2
    /\ \A p \in PeerIndices(pm) : pm.peerSlots[p + 1] # {}

(***************************************************************************)
(* C14.  Removed or zero-score peers are never selected: removePeer(i)     *)
(* has exactly the effect of rescorePeer(i, 0) and adds the former score   *)
(* of the peer to fragmentation; from then on, until peer i is given a     *)
(* positive score again, selectPeer returns i for no sample; and           *)
(* selectPeer returns NO_PEER when slotCount is 0.                         *)
(***************************************************************************)
C14_RemovedNeverSelected ==
    /\ lastPm.op = "removePeer" =>
         /\ pm = rescorePeer(lastPm.before, lastPm.i, 0)
         /\ pm.fragmentation =
              lastPm.before.fragmentation + lastPm.scoresBefore[lastPm.i + 1]
    /\ \A p \in PeerIndices(pm) :
         scores[p + 1] = 0 =>
            /\ \A slot \in Samples(pm) : selectPeer(pm, slot) # p
            /\ lastPm.op = "selectPeer" => lastPm.returned # <<p>>
    /\ pm.slotCount = 0 =>
         /\ \A slot \in Samples(pm) : selectPeer(pm, slot) = NO_PEER
         /\ lastPm.op = "selectPeer" => lastPm.returned = <<NO_PEER>>

\* The first of two peers with positive scores has been removed: a sample
\* in its former slot selects no peer, and the other peer is still selected.
C14_Witness ==
    /\ lastPm.op = "removePeer"
    /\ lastPm.i = 0
    /\ lastPm.scoresBefore = <<2, 1>>
    /\ selectPeer(lastPm.before, 1) = 0
    /\ selectPeer(pm, 1) = NO_PEER
    /\ selectPeer(pm, 2) = 1

\* The PeerManager that addPeer calls with the scores of q, in their order,
\* make of an empty one.
RECURSIVE AddPeers(_)
AddPeers(q) ==
    IF q = <<>> THEN EmptyPeerManager
    ELSE addPeer(AddPeers(SubSeq(q, 1, Len(q) - 1)), q[Len(q)])

\* The number of positive scores among the first n of q.
RECURSIVE Positives(_, _)
Positives(q, n) ==
    IF n = 0 THEN 0 ELSE Positives(q, n - 1) + (IF q[n] > 0 THEN 1 ELSE 0)

\* What C15 asks of the layout addPeer calls with the scores of q build.
LaidOut(q) ==
    LET m == AddPeers(q)
    IN  /\ m.slotCount = SumSeq(q)
        /\ m.fragmentation = 0
        /\ Len(m.slots) = Positives(q, Len(q))
        /\ \A p \in 0..(Len(q) - 1) :
             LET before == SumSeq(SubSeq(q, 1, p))
             IN  /\ q[p + 1] = 0 => m.peerSlots[p + 1] = {}
                 /\ q[p + 1] > 0 =>
                      /\ m.peerSlots[p + 1] = {Positives(q, p)}
                      /\ m.slots[Positives(q, p) + 1]
                            = Slot(before, before + q[p + 1])
                      /\ \A slot \in before..(before + q[p + 1] - 1) :
                            selectPeer(m, slot) = p

(***************************************************************************)
(* C15.  addPeer layout: from an empty allocator, addPeer calls with the   *)
(* scores s_1..s_n leave slotCount at their sum; the k-th peer with a      *)
(* positive score owns the slot that starts at the sum of the scores       *)
(* before it and is as wide as its score, a peer with score 0 owns no      *)
(* slot, and a sample selects the peer whose slot contains it.  With the   *)
(* scores 10, 20, 30: slotCount is 60, 15 selects peer 1, 59 peer 2.       *)
(***************************************************************************)
C15_AddPeerLayout ==
    /\ LaidOut(scores)
    /\ (lastPm.op = "addPeer" /\ lastPm.before = AddPeers(lastPm.scoresBefore))
          => pm = AddPeers(scores)
    /\ LaidOut(<<10, 20, 30>>)
    /\ AddPeers(<<10, 20, 30>>).slotCount = 60
    /\ selectPeer(AddPeers(<<10, 20, 30>>), 15) = 1
    /\ selectPeer(AddPeers(<<10, 20, 30>>), 59) = 2

\* Two addPeer calls on an empty allocator, the first with a score of 0:
\* the second peer owns the first slot, and the samples select it.
C15_Witness ==
    /\ lastPm.op = "addPeer"
    /\ scores = <<0, 2>>
    /\ lastPm.before = AddPeers(<<0>>)
    /\ pm.slots = <<Slot(0, 2)>>
    /\ pm.peerSlots = <<{}, {0}>>
    /\ selectPeer(pm, 1) = 1

\* The slots lie one after the other from 0 to slotCount, none empty.
Contiguous(m) ==
    /\ \A k \in 1..Len(m.slots) :
         /\ m.slots[k].start = (IF k = 1 THEN 0 ELSE m.slots[k - 1].stop)
         /\ m.slots[k].start < m.slots[k].stop
    /\ m.slotCount = (IF m.slots = <<>> THEN 0 ELSE m.slots[Len(m.slots)].stop)

(***************************************************************************)
(* C16.  Compaction: from any reachable state of the allocator, a          *)
(* compaction pass leaves fragmentation at 0 and slotCount at the total    *)
(* live weight, keeps the score (the width of the slot) of every live      *)
(* peer, and leaves the slots contiguous, not overlapping and in           *)
(* ascending order of start.                                               *)
(***************************************************************************)
C16_Compaction ==
    LET c == compact(pm)
    IN  /\ c.fragmentation = 0
        /\ c.slotCount = pm.slotCount - pm.fragmentation
        /\ c.slotCount = SumSeq(scores)
        /\ Len(c.peerSlots) = Len(pm.peerSlots)
        /\ \A p \in PeerIndices(pm) :
             /\ ScoreOf(c, p) = ScoreOf(pm, p)
             /\ Cardinality(c.peerSlots[p + 1]) = Cardinality(pm.peerSlots[p + 1])
        /\ LiveSlots(c) = 0..(Len(c.slots) - 1)
        /\ Contiguous(c)
        /\ AscendingDisjoint(c.slots)
        /\ lastPm.op = "compact" => pm = compact(lastPm.before)

\* A compaction pass has run on an allocator with dead space before a live
\* slot: the slot has moved down and the dead space is gone.
C16_Witness ==
    /\ lastPm.op = "compact"
    /\ lastPm.before.fragmentation > 0
    /\ Len(lastPm.before.slots) = 3
    /\ Len(pm.slots) = 2
    /\ \A p \in PeerIndices(pm) : scores[p + 1] > 0
    /\ pm.slots[1].start < lastPm.before.slots[2].start
    /\ pm.slotCount < lastPm.before.slotCount

CallsWith(proof) == { c \in last.calls : c.entry.proof = proof }

\* The entries of proof in the pool the last call started from.
EntriesBefore(proof) == { e \in last.poolBefore : e.proof = proof }

(***************************************************************************)
(* C18, as it is stated.  rescan(peerManager) calls                        *)
(* peerManager.registerProof exactly once for each distinct proof the pool *)
(* held before the call, however many outpoints the proof stakes.          *)
(***************************************************************************)
C18_OncePerProof ==
    last.op = "rescan" =>
        \A proof \in Proofs :
            Cardinality(CallsWith(proof))
                = (IF EntriesBefore(proof) # {} THEN 1 ELSE 0)

(***************************************************************************)
(* C18, as the loop of rescan has it.  rescan(peerManager) calls           *)
(* peerManager.registerProof once for each entry the pool held before the  *)
(* call: a held proof is passed once for each outpoint it stakes, and a    *)
(* proof that was not held is not passed.                                  *)
(***************************************************************************)
C18_OncePerEntry ==
    last.op = "rescan" =>
        \A proof \in Proofs :
            /\ Cardinality(CallsWith(proof)) = Cardinality(EntriesBefore(proof))
            /\ EntriesBefore(proof) # {} =>
                 Cardinality(CallsWith(proof)) = Len(getStakes(proof))

\* A rescan of a pool that held a proof of two stakes and a proof of one:
\* registerProof was called twice with the first and once with the second.
C18_Witness ==
    /\ last.op = "rescan"
    /\ \E held, single \in Proofs :
         /\ getStakes(held) = <<1, 2>>
         /\ getStakes(single) = <<3>>
         /\ Cardinality(EntriesBefore(held)) = 2
         /\ Cardinality(CallsWith(held)) = 2
         /\ Cardinality(CallsWith(single)) = 1

\* The proofs that have an entry in pl.
HeldIn(pl) == { e.proof : e \in pl }

\* The entries of proof in pl.
EntriesOf(pl, proof) == { e \in pl : e.proof = proof }

(***************************************************************************)
(* C19.  Eviction frame of addProofIfPreferred: when the candidate         *)
(* replaces its conflicts, the proofs removed are exactly those reported   *)
(* in conflictingProofs; every held proof that shares no staked outpoint   *)
(* with the candidate keeps all its entries; every evicted proof loses all *)
(* its entries, those of the outpoints the candidate does not stake too,   *)
(* and these outpoints map to no proof afterwards.                         *)
(***************************************************************************)
C19_EvictionFrame ==
    (Returned("addProofIfPreferred", SUCCEED) /\ last.conflictingProofs # {}) =>
        /\ ~aborted
        /\ HeldIn(last.poolBefore) \ HeldIn(pool) = last.conflictingProofs
        /\ last.conflictingProofs = ConflictsOf(last.poolBefore, last.proof)
        /\ \A held \in HeldIn(last.poolBefore) :
             StakedOutpoints(held) \cap StakedOutpoints(last.proof) = {} =>
                /\ EntriesOf(pool, held) = EntriesOf(last.poolBefore, held)
                /\ FullyPresent(pool, held)
        /\ \A evicted \in last.conflictingProofs :
             /\ EntriesOf(pool, evicted) = {}
             /\ FullyAbsent(pool, evicted)
             /\ \A o \in StakedOutpoints(evicted) \ StakedOutpoints(last.proof) :
                  /\ find(pool, o) = {}
                  /\ getProofByOutpoint(pool, o) = NullProof
        /\ EntriesOf(pool, last.proof) = pool \ last.poolBefore

\* The candidate staking outpoints 2 and 3 has evicted the proof staking 1
\* and 2: outpoint 1, which the candidate does not stake, maps to no proof.
C19_Witness ==
    /\ Returned("addProofIfPreferred", SUCCEED)
    /\ getStakes(last.proof) = <<2, 3>>
    /\ { getStakes(p) : p \in last.conflictingProofs } = { <<1, 2>> }
    /\ { getStakes(p) : p \in HeldIn(last.poolBefore) } = { <<1, 2>> }
    /\ getProofByOutpoint(pool, 1) = NullProof
    /\ getProofByOutpoint(pool, 2) = last.proof

\* The search reads inside the vector and returns an index of it or
\* NO_PEER.
SearchInRange ==
    LET n == Len(search.slots)
    IN  /\ 0 <= search.st.begin
        /\ search.st.begin <= search.st.end
        /\ search.st.end <= n
        /\ search.st.probe \in 0..(IF n = 0 THEN 0 ELSE n - 1)
        /\ search.st.done =>
             \/ search.st.result = NO_PEER
             \/ search.st.result \in 0..(n - 1)

(***************************************************************************)
(* C20.  selectPeerImpl terminates for every sequence of slots and every   *)
(* sample, also when the sample falls in dead space between or after the   *)
(* live slots and when max is stale (beyond the stop of the last slot): it *)
(* returns an index of slots or NO_PEER, it never loops forever and it     *)
(* never reads out of the range of the vector.                             *)
(***************************************************************************)
C20_SearchTerminates == <>(search.st.done) /\ []SearchInRange

\* A search has returned NO_PEER for a sample in the dead space between two
\* live slots, with max beyond the stop of the last slot.
C20_Witness ==
    /\ search.st.done
    /\ search.st.result = NO_PEER
    /\ Len(search.slots) = 3
    /\ \A k \in 1..3 : Width(search.slots[k]) > 0
    /\ search.slots[1].stop <= search.slot
    /\ search.slot < search.slots[2].start
    /\ search.max > search.slots[3].stop

====
